---- MODULE Spec2Model ----
(***************************************************************************)
(* Model of the weather-service-api wind statistics pipeline.              *)
(*                                                                         *)
(* Two specifications share this module:                                   *)
(*   SpecAgg - the annual aggregator (countAnnualStatistics) run as its    *)
(*             for-loop, one iteration per step, on every bounded ordered  *)
(*             sample sequence;                                            *)
(*   Spec    - the request path: handler, GetWindStatistics, the store.    *)
(***************************************************************************)
EXTENDS Integers, Sequences, FiniteSets, TLC

(***************************************************************************)
(* Bounds                                                                  *)
(***************************************************************************)
\* longest hourly sample sequence given to the aggregator
MaxSamples == 3

\* number of requests received over all connections
MaxRequests == 2

(***************************************************************************)
(* Generic helpers                                                         *)
(***************************************************************************)
Range(s) == {s[k] : k \in DOMAIN s}

Min(S) == CHOOSE x \in S : \A y \in S : x <= y

RECURSIVE SortAsc(_)
\* the elements of a finite set of numbers, ascending (sort.Float64s)
SortAsc(S) == IF S = {} THEN <<>> ELSE <<Min(S)>> \o SortAsc(S \ {Min(S)})

(***************************************************************************)
(* Hourly samples.  EndDate is the yyyymmddhh number of the measurement    *)
(* file (timeLayout "2006010215"); Speed is the wind speed, -999 unknown.  *)
(***************************************************************************)
\* time.Time.Year() of a yyyymmddhh timestamp
Year(endDate) == endDate \div 1000000

SampleYears == {2010, 2011, 2012}

\* month-day-hour parts: Jan 1st 00h, Jun 1st 12h, Dec 31st 23h
SampleHours == {10100, 60112, 123123}

Stamps == {y * 1000000 + h : y \in SampleYears, h \in SampleHours}

Speeds == {-999, 2, 4, 6}

\* a rational number sum/num, kept exact instead of a rounded float64
Avg(sum, num) == [sum |-> sum, num |-> num]

RatEq(a, b) == a.sum * b.num = b.sum * a.num

(***************************************************************************)
(* countAnnualStatistics: the loop state and one iteration of the loop.    *)
(***************************************************************************)
AggStart == [previous |-> 0, sum |-> 0, num |-> 0, annualStatistics |-> <<>>]

\* Variant in which the first sample of a new year opens that year's running
\* total instead of closing the previous year's.
AggIterationOpensNewYear(stationName, st, hm, isLast) ==
    LET year == Year(hm.EndDate)
        previous == IF st.previous = 0 THEN year ELSE st.previous
    IN  IF hm.Speed < 0
        THEN [st EXCEPT !.previous = previous]
        ELSE IF year = previous
             THEN [previous |-> previous,
                   sum |-> st.sum + hm.Speed,
                   num |-> st.num + 1,
                   annualStatistics |->
                       IF isLast
                       THEN Append(st.annualStatistics,
                                   [StationName |-> stationName, Year |-> year,
                                    Speed |-> Avg(st.sum + hm.Speed, st.num + 1)])
                       ELSE st.annualStatistics]
             ELSE [previous |-> year,
                   sum |-> hm.Speed,
                   num |-> 1,
                   annualStatistics |->
                       LET closed == IF st.num > 0
                                     THEN Append(st.annualStatistics,
                                                 [StationName |-> stationName,
                                                  Year |-> previous,
                                                  Speed |-> Avg(st.sum, st.num)])
                                     ELSE st.annualStatistics
                       IN  IF isLast
                           THEN Append(closed,
                                       [StationName |-> stationName, Year |-> year,
                                        Speed |-> Avg(hm.Speed, 1)])
                           ELSE closed]

\* Variant that, at a change of year, averages the previous year's running
\* total before the boundary sample is counted.
AggIterationAveragesBeforeCounting(stationName, st, hm, isLast) ==
    LET year == Year(hm.EndDate)
        previous == IF st.previous = 0 THEN year ELSE st.previous
    IN  IF hm.Speed < 0
        THEN [st EXCEPT !.previous = previous]
        ELSE IF year = previous
             THEN [previous |-> previous,
                   sum |-> st.sum + hm.Speed,
                   num |-> st.num + 1,
                   annualStatistics |->
                       IF isLast
                       THEN Append(st.annualStatistics,
                                   [StationName |-> stationName, Year |-> year,
                                    Speed |-> Avg(st.sum + hm.Speed, st.num + 1)])
                       ELSE st.annualStatistics]
             ELSE [previous |-> year,
                   sum |-> hm.Speed,
                   num |-> 1,
                   annualStatistics |->
                       Append(st.annualStatistics,
                              [StationName |-> stationName, Year |-> previous,
                               Speed |-> Avg(st.sum, st.num)])]

\* Variant that leaves previous unchanged when the year changes.
AggIterationKeepsPrevious(stationName, st, hm, isLast) ==
    LET year == Year(hm.EndDate)
        previous == IF st.previous = 0 THEN year ELSE st.previous
    IN  IF hm.Speed < 0
        THEN [st EXCEPT !.previous = previous]
        ELSE IF year = previous
             THEN [previous |-> previous,
                   sum |-> st.sum + hm.Speed,
                   num |-> st.num + 1,
                   annualStatistics |->
                       IF isLast
                       THEN Append(st.annualStatistics,
                                   [StationName |-> stationName, Year |-> year,
                                    Speed |-> Avg(st.sum + hm.Speed, st.num + 1)])
                       ELSE st.annualStatistics]
             ELSE [previous |-> previous,
                   sum |-> 0,
                   num |-> 0,
                   annualStatistics |->
                       Append(st.annualStatistics,
                              [StationName |-> stationName, Year |-> previous,
                               Speed |-> Avg(st.sum + hm.Speed, st.num + 1)])]

\* Body of the for loop over hourlyStatistics; isLast is i == len-1.
AggIteration(stationName, st, hm, isLast) ==
    LET year == Year(hm.EndDate)
        previous == IF st.previous = 0 THEN year ELSE st.previous
    IN  IF hm.Speed < 0
        THEN [st EXCEPT !.previous = previous]
        ELSE IF year = previous
             THEN [previous |-> previous,
                   sum |-> st.sum + hm.Speed,
                   num |-> st.num + 1,
                   annualStatistics |->
                       IF isLast
                       THEN Append(st.annualStatistics,
                                   [StationName |-> stationName, Year |-> year,
                                    Speed |-> Avg(st.sum + hm.Speed, st.num + 1)])
                       ELSE st.annualStatistics]
             ELSE [previous |-> year,
                   sum |-> 0,
                   num |-> 0,
                   annualStatistics |->
                       Append(st.annualStatistics,
                              [StationName |-> stationName, Year |-> previous,
                               Speed |-> Avg(st.sum + hm.Speed, st.num + 1)])]

RECURSIVE AggLoop(_, _, _, _)
AggLoop(stationName, hs, k, st) ==
    IF k > Len(hs) THEN st
    ELSE AggLoop(stationName, hs, k + 1,
                 AggIteration(stationName, st, hs[k], k = Len(hs)))

countAnnualStatistics(stationName, hourlyStatistics) ==
    AggLoop(stationName, hourlyStatistics, 1, AggStart).annualStatistics

(***************************************************************************)
(* Errors.  An error value is its chain of messages, outermost first       *)
(* (fmt.Errorf("...: %w", err) puts a message in front); NoError is nil.   *)
(***************************************************************************)
NoError == <<>>

ErrNoStatisticsInThisPeriod ==
    "unfortunately, there is no statistics available for the nearest weather station for this period"

ErrCityNotFound == "city not found, please, check city name"

ErrNoStations == "there are no stations yet"

ErrNoSuchStation == "station with the given name does not exist"

ErrNoWindDataForStation == "there is no wind data for the given station"

errStatsFileNotFound == "stats file not found"

Wrap(msg, err) == <<msg>> \o err

\* errors.Is: target is somewhere in the chain
errorsIs(err, target) == target \in Range(err)

(***************************************************************************)
(* The outside world: geocoder, station directory, archives, clock         *)
(***************************************************************************)
Cities == {"Aachen", "Atlantis", "Greenwich", "Null Island"}

\* the geocoder's answer for a city: its list of candidate locations.
\* Greenwich lies on the prime meridian (longitude exactly 0), Null Island
\* is the point 0, 0, and Atlantis is unknown to the geocoder.
GeoData(city) ==
    CASE city = "Aachen" -> << [Latitude |-> 50, Longitude |-> 6] >>
      [] city = "Greenwich" -> << [Latitude |-> 51, Longitude |-> 0] >>
      [] city = "Null Island" -> << [Latitude |-> 0, Longitude |-> 0] >>
      [] OTHER -> <<>>

\* the most recent year with measurements (repository.LastMeasuredYear)
LastMeasuredYear == 2022

\* the stations of the directory file, in file order
StationsSource ==
    << [ID |-> "00003", Name |-> "Aachen-Orsbach",
        Latitude |-> 50, Longitude |-> 16, EndDate |-> 2022],
       [ID |-> "00044", Name |-> "Koeln-Stammheim",
        Latitude |-> 75, Longitude |-> 6, EndDate |-> 2022],
       [ID |-> "00091", Name |-> "Bonn-Roleber",
        Latitude |-> 50, Longitude |-> 31, EndDate |-> 2021] >>

StationIDs == {StationsSource[k].ID : k \in DOMAIN StationsSource}

StationNames == {StationsSource[k].Name : k \in DOMAIN StationsSource}

\* what the archive source holds for a station id: no link on the index page,
\* an archive without a product file, or an archive with a measurement file
ArchiveKinds == {"nolink", "noproduct", "data"}

\* the parsed hourly samples of a station's measurement file
HourlyOf(stationID) ==
    IF stationID = "00003"
    THEN << [EndDate |-> 2020060112, Speed |-> 4],
            [EndDate |-> 2021060112, Speed |-> 2],
            [EndDate |-> 2022060112, Speed |-> 6],
            [EndDate |-> 2022123123, Speed |-> 2] >>
    ELSE << [EndDate |-> 2020060112, Speed |-> 2],
            [EndDate |-> 2021060112, Speed |-> 4],
            [EndDate |-> 2021123123, Speed |-> 6] >>

\* wall-clock years the service may run in: the years after the last
\* measured one
ClockYears == {LastMeasuredYear + 1, LastMeasuredYear + 2}

Abs(x) == IF x < 0 THEN -x ELSE x

\* haversine.Distance, on the model's integer grid
Distance(a, b) == Abs(a.Latitude - b.Latitude) + Abs(a.Longitude - b.Longitude)

(***************************************************************************)
(* validateQueryParams                                                     *)
(***************************************************************************)
Digits == {"0", "1", "2", "3", "4", "5", "6", "7", "8", "9"}

DigitVal(c) ==
    CASE c = "0" -> 0 [] c = "1" -> 1 [] c = "2" -> 2 [] c = "3" -> 3
      [] c = "4" -> 4 [] c = "5" -> 5 [] c = "6" -> 6 [] c = "7" -> 7
      [] c = "8" -> 8 [] c = "9" -> 9

RECURSIVE DigitsValue(_)
DigitsValue(ds) ==
    IF ds = <<>> THEN 0
    ELSE 10 * DigitsValue(SubSeq(ds, 1, Len(ds) - 1)) + DigitVal(ds[Len(ds)])

\* strconv.Atoi on a string given as its characters: [ok, value]
Atoi(str) ==
    LET signed == str # <<>> /\ str[1] \in {"+", "-"}
        ds == IF signed THEN Tail(str) ELSE str
    IN  IF ds = <<>> \/ \E k \in DOMAIN ds : ds[k] \notin Digits
        THEN [ok |-> FALSE, value |-> 0]
        ELSE [ok |-> TRUE,
              value |-> IF signed /\ str[1] = "-" THEN -DigitsValue(ds)
                        ELSE DigitsValue(ds)]

\* Variant without the lower bound on years.
validateQueryParamsNoLowerBound(params) ==
    IF params.city = ""
    THEN [err |-> <<"city parameter not provided in query">>]
    ELSE IF params.years = <<>>
    THEN [err |-> <<"years parameter not provided in query">>]
    ELSE IF ~Atoi(params.years).ok
    THEN [err |-> <<"invalid years parameter">>]
    ELSE [err |-> NoError, City |-> params.city, Years |-> Atoi(params.years).value]

validateQueryParams(params) ==
    IF params.city = ""
    THEN [err |-> <<"city parameter not provided in query">>]
    ELSE IF params.years = <<>>
    THEN [err |-> <<"years parameter not provided in query">>]
    ELSE IF ~Atoi(params.years).ok
    THEN [err |-> <<"invalid years parameter">>]
    ELSE IF Atoi(params.years).value < 1
    THEN [err |-> <<"years should be more than 0">>]
    ELSE [err |-> NoError, City |-> params.city, Years |-> Atoi(params.years).value]

\* query strings a client may send
QueryCities == Cities \cup {""}

QueryYears == {<<>>, <<"x">>, <<"0">>, <<"-", "1">>, <<"1">>, <<"2">>}

\* the queries sent: every years parameter for Aachen, and years=2 for every
\* other city parameter
Queries ==
    {q \in [city : QueryCities, years : QueryYears] :
         q.city = "Aachen" \/ q.years = <<"2">>}

(***************************************************************************)
(* Handler responses                                                       *)
(***************************************************************************)
StatusOK == 200

StatusBadRequest == 400

StatusNotFound == 404

StatusInternalServerError == 500

respond(code, payload) == [Code |-> code, Body |-> payload]

\* Variant answering with a fixed message instead of err.Error().
respondErrGeneric(code, err) ==
    respond(code, [Code |-> code, Message |-> <<"internal server error">>])

\* errorResponse{Code: code, Message: err.Error()}: the text of a wrapped
\* error is the chain of its messages
respondErr(code, err) == respond(code, [Code |-> code, Message |-> err])

\* Variant comparing the service error by identity instead of errors.Is.
ServiceResponseByIdentity(statistics, err) ==
    IF err = <<ErrNoStatisticsInThisPeriod>>
    THEN respondErr(StatusNotFound, <<ErrNoStatisticsInThisPeriod>>)
    ELSE IF err = <<ErrCityNotFound>>
    THEN respondErr(StatusNotFound, <<ErrCityNotFound>>)
    ELSE IF err # NoError
    THEN respondErr(StatusInternalServerError, err)
    ELSE respond(StatusOK, statistics)

\* GetWindStatisticsHandler after the service call returned (statistics, err)
ServiceResponse(statistics, err) ==
    IF errorsIs(err, ErrNoStatisticsInThisPeriod)
    THEN respondErr(StatusNotFound, <<ErrNoStatisticsInThisPeriod>>)
    ELSE IF errorsIs(err, ErrCityNotFound)
    THEN respondErr(StatusNotFound, <<ErrCityNotFound>>)
    ELSE IF err # NoError
    THEN respondErr(StatusInternalServerError, err)
    ELSE respond(StatusOK, statistics)

(***************************************************************************)
(* findPossibleNearestStations                                             *)
(***************************************************************************)
\* Variant sorting the distances from max to min.
SortedDistancesDescending(S) ==
    LET asc == SortAsc(S)
    IN  [k \in 1..Len(asc) |-> asc[Len(asc) + 1 - k]]

\* sort.Float64s(distances)
SortedDistances(S) == SortAsc(S)

findPossibleNearestStations(cityCoords, stationList, years) ==
    LET \* map distance -> station: a later station replaces an earlier one
        \* at the same distance
        stationByDistance(d) ==
            LET K == {k \in DOMAIN stationList :
                          Distance(cityCoords, stationList[k]) = d}
            IN  stationList[CHOOSE k \in K : \A j \in K : j <= k]
        distances ==
            SortedDistances({Distance(cityCoords, stationList[k]) :
                                 k \in DOMAIN stationList})
        byDistance == [k \in DOMAIN distances |-> stationByDistance(distances[k])]
        covered(st) == st.EndDate > LastMeasuredYear - years
    IN  SelectSeq(byDistance, covered)

(***************************************************************************)
(* Repository: the stations and windStats collections                      *)
(***************************************************************************)
RECURSIVE InsertManyStations(_, _)
\* ordered InsertMany under the unique index on name: documents are written
\* one by one and the first duplicate name stops the batch with an error
InsertManyStations(coll, docs) ==
    IF docs = <<>> THEN [coll |-> coll, err |-> NoError]
    ELSE IF \E k \in DOMAIN coll : coll[k].Name = Head(docs).Name
    THEN [coll |-> coll, err |-> <<"E11000 duplicate key error">>]
    ELSE InsertManyStations(Append(coll, Head(docs)), Tail(docs))

InsertStationsInfo(coll, stationsInfo) ==
    IF stationsInfo = <<>>
    THEN [coll |-> coll, err |-> <<"must provide at least one element in input slice">>]
    ELSE InsertManyStations(coll, stationsInfo)

GetStationsCoordinates(coll) ==
    IF Len(coll) = 0 THEN [stations |-> <<>>, err |-> <<ErrNoStations>>]
    ELSE [stations |-> coll, err |-> NoError]

GetStationID(coll, stationName) ==
    LET K == {k \in DOMAIN coll : coll[k].Name = stationName}
    IN  IF K = {} THEN [id |-> "", err |-> <<ErrNoSuchStation>>]
        ELSE [id |-> coll[Min(K)].ID, err |-> NoError]

\* windStats has no unique index: every document of the batch is written
InsertAnnualStatistics(coll, measurements) ==
    IF measurements = <<>>
    THEN [coll |-> coll, err |-> <<"must provide at least one element in input slice">>]
    ELSE [coll |-> coll \o measurements, err |-> NoError]

\* InsertMany that ends with an error (the 5 s deadline of ctxWithTimeout
\* passes, the connection is lost) after it wrote the first `written`
\* documents: the batch runs in no transaction, what was written stays
InsertManyInterrupted(coll, docs, written) ==
    [coll |-> coll \o SubSeq(docs, 1, written),
     err |-> <<"context deadline exceeded">>]

\* CountDocuments(windStats, {}) > 0: the filter is empty
CheckIfStatisticsExists(coll, stationName) == Len(coll) > 0

RECURSIVE SortByYearDescending(_)
\* SetSort({"year": -1})
SortByYearDescending(docs) ==
    IF docs = <<>> THEN <<>>
    ELSE LET top == CHOOSE k \in DOMAIN docs :
                        /\ \A j \in DOMAIN docs : docs[j].Year <= docs[k].Year
                        /\ \A j \in 1..(k - 1) : docs[j].Year < docs[k].Year
             rest == [j \in 1..(Len(docs) - 1) |->
                          IF j < top THEN docs[j] ELSE docs[j + 1]]
         IN  <<docs[top]>> \o SortByYearDescending(rest)

\* filter {"stationName": stationName, "year": {"$gte": curYear - years}}
YearFilter(doc, stationName, years, now) ==
    /\ doc.StationName = stationName
    /\ doc.Year >= now - years

GetStationWindStatistics(coll, stationName, years, now) ==
    LET match(doc) == YearFilter(doc, stationName, years, now)
        windData == SortByYearDescending(SelectSeq(coll, match))
    IN  IF Len(windData) = 0
        THEN [stats |-> <<>>, err |-> <<ErrNoWindDataForStation>>]
        ELSE [stats |-> windData, err |-> NoError]

(***************************************************************************)
(* The station directory file.  A string is the sequence of its            *)
(* characters; fileLines is what the line scanner delivers.                *)
(***************************************************************************)
\* longest station directory file, in lines
MaxLines == 4

\* unicode.IsSpace on the characters of the files
IsSpace(c) == c \in {" ", "\t"}

RECURSIVE FieldsFrom(_, _, _)
\* strings.Fields from position k on; cur is the field being read
FieldsFrom(line, k, cur) ==
    IF k > Len(line)
    THEN IF cur = <<>> THEN <<>> ELSE <<cur>>
    ELSE IF IsSpace(line[k])
    THEN IF cur = <<>> THEN FieldsFrom(line, k + 1, <<>>)
         ELSE <<cur>> \o FieldsFrom(line, k + 1, <<>>)
    ELSE FieldsFrom(line, k + 1, Append(cur, line[k]))

\* strings.Fields(line)
Fields(line) == FieldsFrom(line, 1, <<>>)

RECURSIVE Join(_, _)
\* strings.Join(elems, sep)
Join(elems, sep) ==
    IF elems = <<>> THEN <<>>
    ELSE IF Len(elems) = 1 THEN elems[1]
    ELSE elems[1] \o sep \o Join(Tail(elems), sep)

\* Variant keeping the last field (the region) in the name.
parseStationsInfoKeepsRegion(line) ==
    LET parts == Fields(line)
    IN  IF Len(parts) - 1 < 6
        THEN [panic |-> TRUE]
        ELSE [panic |-> FALSE,
              station |-> [ID |-> parts[1],
                           Name |-> Join(SubSeq(parts, 7, Len(parts)), <<" ">>)]]

\* parseStationsInfo: parts[6 : len(parts)-1] panics (slice bounds out of
\* range) when the line has fewer than seven fields; the error result is
\* always nil
parseStationsInfo(line) ==
    LET parts == Fields(line)
    IN  IF Len(parts) - 1 < 6
        THEN [panic |-> TRUE]
        ELSE [panic |-> FALSE,
              station |-> [ID |-> parts[1],
                           Name |-> Join(SubSeq(parts, 7, Len(parts) - 1), <<" ">>)]]

\* a directory line of eight fields
LineAachen ==
    <<"0", "0", "0", "0", "3", " ", "1", "8", "9", "1", "0", "1", "0", "1",
      " ", "2", "0", "1", "1", "0", "3", "3", "1", " ", "2", "0", "2", " ",
      "5", "0", ".", "7", "8", "2", "7", " ", "6", ".", "0", "9", "4", "1",
      " ", "A", "a", "c", "h", "e", "n", " ", "N", "o", "r", "d", "r", "h",
      "e", "i", "n", "-", "W", "e", "s", "t", "f", "a", "l", "e", "n">>

\* nine fields, a name of two words, runs of blanks and a tab
LineZwischenahn ==
    <<" ", "0", "0", "0", "4", "4", " ", " ", "1", "9", "6", "9", "0", "1",
      "0", "1", " ", "2", "0", "2", "2", "1", "2", "3", "1", " ", "4", "4",
      "	", "5", "2", ".", "9", " ", "8", ".", "2", " ", "B", "a", "d", " ",
      " ", "Z", "w", "i", "s", "c", "h", "e", "n", "a", "h", "n", " ", " ",
      "N", "i", "e", "d", "e", "r", "s", "a", "c", "h", "s", "e", "n", " ">>

\* seven fields: no region column
LineBonn ==
    <<"0", "0", "0", "9", "1", " ", "1", "9", "7", "8", "0", "1", "0", "1",
      " ", "2", "0", "2", "1", "1", "2", "3", "1", " ", "3", "0", "0", " ",
      "5", "0", ".", "7", " ", "7", ".", "2", " ", "B", "o", "n", "n">>

\* three fields, as in a truncated header line
LineHeader ==
    <<"S", "t", "a", "t", "i", "o", "n", "s", "_", "i", "d", " ", "v", "o",
      "n", "_", "d", "a", "t", "u", "m", " ", "b", "i", "s", "_", "d", "a",
      "t", "u", "m">>

\* an empty line
LineEmpty ==
    <<>>

DirectoryLines == {LineAachen, LineZwischenahn, LineBonn, LineHeader, LineEmpty}

\* the directory files: every sequence of at most MaxLines of these lines
DirectoryFiles == UNION {[1..n -> DirectoryLines] : n \in 0..MaxLines}

(***************************************************************************)
(* The measurement (product) file of a station's archive                   *)
(***************************************************************************)
\* strings.ReplaceAll(line, " ", "")
RemoveBlanks(line) ==
    LET notBlank(c) == c # " "
    IN  SelectSeq(line, notBlank)

RECURSIVE SplitFrom(_, _, _, _)
\* strings.Split from position k on; cur is the part being read
SplitFrom(str, sep, k, cur) ==
    IF k > Len(str) THEN <<cur>>
    ELSE IF str[k] = sep THEN <<cur>> \o SplitFrom(str, sep, k + 1, <<>>)
    ELSE SplitFrom(str, sep, k + 1, Append(cur, str[k]))

\* strings.Split(str, sep) for a separator of one character
Split(str, sep) == SplitFrom(str, sep, 1, <<>>)

DaysIn(year, month) ==
    CASE month \in {4, 6, 9, 11} -> 30
      [] month = 2 ->
            IF (year % 4 = 0 /\ year % 100 # 0) \/ year % 400 = 0 THEN 29 ELSE 28
      [] OTHER -> 31

\* time.Parse(timeLayout, str) with timeLayout "2006010215": [ok, value],
\* the value being the yyyymmddhh number
TimeParse(str) ==
    IF Len(str) # 10 \/ \E k \in DOMAIN str : str[k] \notin Digits
    THEN [ok |-> FALSE, value |-> 0]
    ELSE LET year == DigitsValue(SubSeq(str, 1, 4))
             month == DigitsValue(SubSeq(str, 5, 6))
             day == DigitsValue(SubSeq(str, 7, 8))
             hour == DigitsValue(SubSeq(str, 9, 10))
         IN  IF /\ month \in 1..12
                /\ day \in 1..DaysIn(year, month)
                /\ hour \in 0..23
             THEN [ok |-> TRUE, value |-> DigitsValue(str)]
             ELSE [ok |-> FALSE, value |-> 0]

RECURSIVE Pow10(_)
Pow10(n) == IF n = 0 THEN 1 ELSE 10 * Pow10(n - 1)

\* strconv.ParseFloat(str, 64) on decimal numbers (sign, digits, one point):
\* [ok, value], the value being the exact fraction num/den
ParseFloat(str) ==
    LET signed == str # <<>> /\ str[1] \in {"+", "-"}
        body == IF signed THEN Tail(str) ELSE str
        points == {k \in DOMAIN body : body[k] = "."}
    IN  IF \/ Cardinality(points) > 1
           \/ Len(body) - Cardinality(points) = 0
           \/ \E k \in DOMAIN body : body[k] \notin Digits \cup {"."}
        THEN [ok |-> FALSE, value |-> [num |-> 0, den |-> 1]]
        ELSE LET at == IF points = {} THEN Len(body) + 1
                       ELSE CHOOSE k \in points : TRUE
                 whole == SubSeq(body, 1, at - 1)
                 frac == SubSeq(body, at + 1, Len(body))
                 abs == DigitsValue(whole) * Pow10(Len(frac)) + DigitsValue(frac)
             IN  [ok |-> TRUE,
                  value |-> [num |-> IF signed /\ str[1] = "-" THEN -abs ELSE abs,
                             den |-> Pow10(Len(frac))]]

\* parseHourlyStatistics: parts[1] and parts[3] panic (index out of range)
\* when the line has too few ';'-separated parts; a failed conversion is
\* returned as an error
parseHourlyStatistics(line) ==
    LET parts == Split(RemoveBlanks(line), ";")
    IN  IF Len(parts) < 2 THEN [panic |-> TRUE, err |-> NoError]
        ELSE IF ~TimeParse(parts[2]).ok
        THEN [panic |-> FALSE, err |-> <<"failed to parse end date value">>]
        ELSE IF Len(parts) < 4 THEN [panic |-> TRUE, err |-> NoError]
        ELSE IF ~ParseFloat(parts[4]).ok
        THEN [panic |-> FALSE, err |-> <<"failed to parse speed value">>]
        ELSE [panic |-> FALSE, err |-> NoError,
              hs |-> [EndDate |-> TimeParse(parts[2]).value,
                      Speed |-> ParseFloat(parts[4]).value]]

\* a measurement line as the source writes it
LineSample ==
    <<" ", " ", " ", " ", " ", " ", " ", " ", " ", " ", "3", ";", "2", "0",
      "1", "0", "0", "6", "0", "1", "1", "2", ";", " ", " ", " ", " ", "1",
      ";", " ", " ", " ", "4", ".", "0", ";", " ", "2", "1", "0", ";", "e",
      "o", "r">>

\* a line with the unknown-speed value
LineSentinel ==
    <<"3", ";", "2", "0", "1", "1", "0", "6", "0", "1", "1", "2", ";", "1",
      ";", "-", "9", "9", "9", ";", "-", "9", "9", "9", ";", "e", "o", "r">>

\* month 13
LineBadDate ==
    <<"3", ";", "2", "0", "1", "1", "1", "3", "3", "1", "1", "2", ";", "1",
      ";", "2", ".", "0", ";", "1", "0", ";", "e", "o", "r">>

\* a speed that is no number
LineBadSpeed ==
    <<"3", ";", "2", "0", "1", "2", "0", "6", "0", "1", "1", "2", ";", "1",
      ";", "x", ";", "1", "0", ";", "e", "o", "r">>

\* a line cut after the timestamp
LineTruncated ==
    <<"3", ";", "2", "0", "1", "2", "0", "6", "0", "1", "1", "2">>

MeasurementLines ==
    {LineSample, LineSentinel, LineBadDate, LineBadSpeed, LineTruncated, LineEmpty}

\* the measurement files: every sequence of at most MaxLines of these lines
MeasurementFiles == UNION {[1..n -> MeasurementLines] : n \in 0..MaxLines}

(***************************************************************************)
(* The archive index page, as the tokens html.Tokenizer delivers           *)
(***************************************************************************)
\* longest index page, in tokens
MaxTokens == 4

\* the fixed part of dataFileNameRegExp, `(stundenwerte_FF_+)`: this text and
\* one or more underscores after it
dataFileNamePrefix ==
    <<"s", "t", "u", "n", "d", "e", "n", "w", "e", "r", "t", "e", "_", "F",
      "F">>

\* str occurs in text at position p
OccursAt(text, p, str) ==
    /\ p + Len(str) - 1 <= Len(text)
    /\ \A k \in DOMAIN str : text[p + k - 1] = str[k]

\* regexp.MatchString(dataFileNameRegExp+stationID, tokenData): somewhere in
\* the text the prefix, then one or more underscores, then the station id
MatchString(stationID, tokenData) ==
    \E p \in DOMAIN tokenData :
        /\ OccursAt(tokenData, p, dataFileNamePrefix)
        /\ \E n \in 1..Len(tokenData) :
              /\ \A k \in 1..n :
                    /\ p + Len(dataFileNamePrefix) + k - 1 <= Len(tokenData)
                    /\ tokenData[p + Len(dataFileNamePrefix) + k - 1] = "_"
              /\ OccursAt(tokenData, p + Len(dataFileNamePrefix) + n, stationID)

Token(type, data) == [type |-> type, data |-> data]

\* the file name of station 00003
TextAachenFile ==
    <<"s", "t", "u", "n", "d", "e", "n", "w", "e", "r", "t", "e", "_", "F",
      "F", "_", "0", "0", "0", "0", "3", "_", "h", "i", "s", "t", ".", "z",
      "i", "p">>

\* the file name of station 00044
TextKoelnFile ==
    <<"s", "t", "u", "n", "d", "e", "n", "w", "e", "r", "t", "e", "_", "F",
      "F", "_", "0", "0", "0", "4", "4", "_", "h", "i", "s", "t", ".", "z",
      "i", "p">>

\* the file name of station 00091
TextBonnFile ==
    <<"s", "t", "u", "n", "d", "e", "n", "w", "e", "r", "t", "e", "_", "F",
      "F", "_", "0", "0", "0", "9", "1", "_", "h", "i", "s", "t", ".", "z",
      "i", "p">>

\* some other link text
TextParent ==
    <<"P", "a", "r", "e", "n", "t", " ", "D", "i", "r", "e", "c", "t", "o",
      "r", "y">>

\* the tokens of the model's pages: <a>, </a>, another element's tags, and
\* three texts
PageTokens ==
    {Token("StartTag", <<"a">>), Token("EndTag", <<"a">>),
     Token("StartTag", <<"b">>), Token("EndTag", <<"b">>),
     Token("Text", TextAachenFile), Token("Text", TextKoelnFile),
     Token("Text", TextParent)}

\* the pages: every sequence of at most MaxTokens tokens in which no text
\* token follows another one (the tokenizer delivers adjacent text as one
\* token)
IndexPages ==
    UNION {{pg \in [1..n -> PageTokens] :
                \A k \in 1..(n - 1) :
                    ~(pg[k].type = "Text" /\ pg[k + 1].type = "Text")} :
           n \in 0..MaxTokens}

\* the station id getStationStatisticsFileName is called with
ScanStationID == <<"0", "0", "0", "0", "3">>

\* one iteration of the for loop of getStationStatisticsFileName: z.Next()
\* is the ErrorToken at the end of the page
LinkScanStepFor(stationID, st) ==
    IF st.i > Len(st.tokens)
    THEN [st EXCEPT !.pc = "notfound"]
    ELSE LET tok == st.tokens[st.i]
         IN  IF tok.type = "StartTag"
             THEN IF tok.data = <<"a">>
                  THEN [st EXCEPT !.isLink = TRUE, !.i = @ + 1]
                  ELSE [st EXCEPT !.i = @ + 1]
             ELSE IF tok.type = "Text"
             THEN IF st.isLink
                  THEN IF MatchString(stationID, tok.data)
                       THEN [st EXCEPT !.pc = "found", !.fileName = tok.data]
                       ELSE [st EXCEPT !.isLink = FALSE, !.i = @ + 1]
                  ELSE [st EXCEPT !.i = @ + 1]
             ELSE [st EXCEPT !.i = @ + 1]

\* the iteration in the call of SpecLink
LinkScanStep(st) == LinkScanStepFor(ScanStationID, st)

RECURSIVE LinkScan(_, _)
\* the for loop of getStationStatisticsFileName, run to its return
LinkScan(stationID, st) ==
    IF st.pc # "loop" THEN st
    ELSE LinkScan(stationID, LinkScanStepFor(stationID, st))

\* getStationStatisticsFileName(stationID, htmlResult): pc is "found" with
\* the file name, or "notfound" for the error 'info file not found'
getStationStatisticsFileName(stationID, tokens) ==
    LinkScan(stationID, [tokens |-> tokens, i |-> 1, isLink |-> FALSE,
                         fileName |-> <<>>, pc |-> "loop"])

\* the archive file of a station on the index page
StationFile(id) ==
    CASE id = "00003" -> TextAachenFile
      [] id = "00044" -> TextKoelnFile
      [] id = "00091" -> TextBonnFile

\* the station whose archive a file of the index page is
FileOwner(fileName) == CHOOSE id \in StationIDs : StationFile(id) = fileName

\* the characters of a station id as the service holds it
IDText(id) ==
    CASE id = "" -> <<>>
      [] id = "00003" -> <<"0", "0", "0", "0", "3">>
      [] id = "00044" -> <<"0", "0", "0", "4", "4">>
      [] id = "00091" -> <<"0", "0", "0", "9", "1">>

\* the index page of an archive source: one link per station that has a
\* file, in the order of the station ids
ArchiveIndexPage(arch) ==
    LET link(id) == IF arch[id] = "nolink" THEN <<>>
                    ELSE <<Token("StartTag", <<"a">>), Token("Text", StationFile(id)),
                           Token("EndTag", <<"a">>)>>
    IN  link("00003") \o link("00044") \o link("00091")

(***************************************************************************)
(* State                                                                   *)
(***************************************************************************)
VARIABLES
    hourlyStatistics,   \* aggregator input
    aggName,            \* aggregator stationName argument
    aggIdx,             \* aggregator: next loop index (1-based)
    aggSt,              \* aggregator: previous, sum, num, annualStatistics
    aggPc,              \* aggregator: "off", "loop" or "done"
    stations,           \* store: the stations collection, in insertion order
    windStats,          \* store: the windStats collection, in insertion order
    curYear,            \* the wall-clock year (time.Now().Date())
    archive,            \* archive source: station id -> ArchiveKinds
    started,            \* number of requests received so far
    rq,                 \* per connection: the request in progress
    stationsFile,       \* getStationsInfo: fileLines, i, stationsInfo, pc
    windFile,           \* getHourlyStatistics: fileLines, i, hourlyStatistics, pc
    indexPage           \* getStationStatisticsFileName: tokens, i, isLink, ...

aggVars == <<hourlyStatistics, aggName, aggIdx, aggSt, aggPc>>

reqVars == <<stations, windStats, curYear, archive, started, rq>>

parseVars == <<stationsFile, windFile, indexPage>>

vars == <<hourlyStatistics, aggName, aggIdx, aggSt, aggPc,
          stations, windStats, curYear, archive, started, rq,
          stationsFile, windFile, indexPage>>

\* connections served concurrently
Slots == {"r1", "r2"}

\* a connection with no request yet
IdleRequest ==
    [pc |-> "idle",
     query |-> [city |-> "", years |-> <<>>],
     windReq |-> [City |-> "", Years |-> 0],
     cityCoords |-> [Latitude |-> 0, Longitude |-> 0],
     possibleStations |-> <<>>,
     idx |-> 0,
     stationID |-> "",
     stationName |-> "",
     batch |-> <<>>,
     resp |-> [Code |-> 0, Body |-> <<>>],
     ret |-> [statistics |-> <<>>, err |-> NoError],
     calls |-> <<>>]

\* the request-path variables while only the aggregator runs
ReqOff ==
    /\ stations = <<>>
    /\ windStats = <<>>
    /\ curYear = LastMeasuredYear + 1
    /\ archive = [id \in StationIDs |-> "data"]
    /\ started = 0
    /\ rq = [r \in Slots |-> IdleRequest]

\* the aggregator variables while only the request path runs
AggOff ==
    /\ hourlyStatistics = <<>>
    /\ aggName = ""
    /\ aggIdx = 1
    /\ aggSt = AggStart
    /\ aggPc = "off"

\* getStationsInfo is not running
DirOff ==
    stationsFile = [fileLines |-> <<>>, i |-> 0, stationsInfo |-> <<>>, pc |-> "off"]

\* getHourlyStatistics is not running
HourlyOff ==
    windFile = [fileLines |-> <<>>, i |-> 0, hourlyStatistics |-> <<>>, pc |-> "off"]

\* getStationStatisticsFileName is not running
LinkOff ==
    indexPage = [tokens |-> <<>>, i |-> 0, isLink |-> FALSE, fileName |-> <<>>,
                 pc |-> "off"]

(***************************************************************************)
(* SpecAgg: countAnnualStatistics on every ordered sample sequence         *)
(***************************************************************************)
\* Ordered(S, sp): the samples with the timestamps of S in ascending order
\* and the speeds sp
Ordered(S, sp) ==
    LET stamps == SortAsc(S)
    IN  [k \in 1..Len(stamps) |-> [EndDate |-> stamps[k], Speed |-> sp[k]]]

\* every ordered sample sequence of at most MaxSamples samples
InitAgg ==
    /\ \E S \in SUBSET Stamps :
         /\ Cardinality(S) <= MaxSamples
         /\ \E sp \in [1..Cardinality(S) -> Speeds] :
              hourlyStatistics = Ordered(S, sp)
    /\ aggName = "Aachen-Orsbach"
    /\ aggIdx = 1
    /\ aggSt = AggStart
    /\ aggPc = "loop"
    /\ ReqOff
    /\ DirOff /\ HourlyOff /\ LinkOff

AggLoopStep ==
    /\ aggPc = "loop"
    /\ aggIdx <= Len(hourlyStatistics)
    /\ aggSt' = AggIteration(aggName, aggSt, hourlyStatistics[aggIdx],
                             aggIdx = Len(hourlyStatistics))
    /\ aggIdx' = aggIdx + 1
    /\ UNCHANGED <<hourlyStatistics, aggName, aggPc>>
    /\ UNCHANGED reqVars
    /\ UNCHANGED parseVars

AggReturn ==
    /\ aggPc = "loop"
    /\ aggIdx > Len(hourlyStatistics)
    /\ aggPc' = "done"
    /\ UNCHANGED <<hourlyStatistics, aggName, aggIdx, aggSt>>
    /\ UNCHANGED reqVars
    /\ UNCHANGED parseVars

NextAgg == AggLoopStep \/ AggReturn

SpecAgg == InitAgg /\ [][NextAgg]_vars

(***************************************************************************)
(* SpecDir: getStationsInfo on every directory file of DirectoryFiles      *)
(***************************************************************************)
InitDir ==
    /\ \E f \in DirectoryFiles :
         stationsFile = [fileLines |-> f, i |-> 0, stationsInfo |-> <<>>,
                         pc |-> "start"]
    /\ AggOff /\ ReqOff /\ HourlyOff /\ LinkOff

\* make([]*model.Station, 0, len(fileLines)-2) and fileLines[2:]: both panic
\* when the file has fewer than two lines
DirStart ==
    /\ stationsFile.pc = "start"
    /\ stationsFile' =
           IF Len(stationsFile.fileLines) - 2 < 0
           THEN [stationsFile EXCEPT !.pc = "panic"]
           ELSE [stationsFile EXCEPT !.pc = "loop", !.i = 3]
    /\ UNCHANGED <<windFile, indexPage>>
    /\ UNCHANGED aggVars
    /\ UNCHANGED reqVars

\* one iteration of for _, line := range fileLines[2:]
DirLoopStep ==
    /\ stationsFile.pc = "loop"
    /\ stationsFile.i <= Len(stationsFile.fileLines)
    /\ LET res == parseStationsInfo(stationsFile.fileLines[stationsFile.i])
       IN  stationsFile' =
               IF res.panic
               THEN [stationsFile EXCEPT !.pc = "panic"]
               ELSE [stationsFile EXCEPT
                        !.stationsInfo = Append(@, res.station),
                        !.i = @ + 1]
    /\ UNCHANGED <<windFile, indexPage>>
    /\ UNCHANGED aggVars
    /\ UNCHANGED reqVars

DirReturn ==
    /\ stationsFile.pc = "loop"
    /\ stationsFile.i > Len(stationsFile.fileLines)
    /\ stationsFile' = [stationsFile EXCEPT !.pc = "done"]
    /\ UNCHANGED <<windFile, indexPage>>
    /\ UNCHANGED aggVars
    /\ UNCHANGED reqVars

NextDir == DirStart \/ DirLoopStep \/ DirReturn

SpecDir == InitDir /\ [][NextDir]_vars

(***************************************************************************)
(* SpecHourly: getHourlyStatistics on every file of MeasurementFiles       *)
(***************************************************************************)
InitHourly ==
    /\ \E f \in MeasurementFiles :
         windFile = [fileLines |-> f, i |-> 0, hourlyStatistics |-> <<>>,
                     pc |-> "start"]
    /\ AggOff /\ ReqOff /\ DirOff /\ LinkOff

\* make([]*model.HourlyStatistics, 0, len(fileLines)-1) and fileLines[1:]:
\* both panic when the file has no line
HourlyStart ==
    /\ windFile.pc = "start"
    /\ windFile' =
           IF Len(windFile.fileLines) - 1 < 0
           THEN [windFile EXCEPT !.pc = "panic"]
           ELSE [windFile EXCEPT !.pc = "loop", !.i = 2]
    /\ UNCHANGED <<stationsFile, indexPage>>
    /\ UNCHANGED aggVars
    /\ UNCHANGED reqVars

\* one iteration of for _, line := range fileLines[1:]
HourlyLoopStep ==
    /\ windFile.pc = "loop"
    /\ windFile.i <= Len(windFile.fileLines)
    /\ LET res == parseHourlyStatistics(windFile.fileLines[windFile.i])
       IN  windFile' =
               IF res.panic
               THEN [windFile EXCEPT !.pc = "panic"]
               ELSE IF res.err # NoError
               THEN [windFile EXCEPT !.i = @ + 1]
               ELSE [windFile EXCEPT
                        !.hourlyStatistics = Append(@, res.hs),
                        !.i = @ + 1]
    /\ UNCHANGED <<stationsFile, indexPage>>
    /\ UNCHANGED aggVars
    /\ UNCHANGED reqVars

HourlyReturn ==
    /\ windFile.pc = "loop"
    /\ windFile.i > Len(windFile.fileLines)
    /\ windFile' = [windFile EXCEPT !.pc = "done"]
    /\ UNCHANGED <<stationsFile, indexPage>>
    /\ UNCHANGED aggVars
    /\ UNCHANGED reqVars

NextHourly == HourlyStart \/ HourlyLoopStep \/ HourlyReturn

SpecHourly == InitHourly /\ [][NextHourly]_vars

(***************************************************************************)
(* SpecLink: getStationStatisticsFileName on every page of IndexPages      *)
(***************************************************************************)
InitLink ==
    /\ \E pg \in IndexPages :
         indexPage = [tokens |-> pg, i |-> 1, isLink |-> FALSE,
                      fileName |-> <<>>, pc |-> "loop"]
    /\ AggOff /\ ReqOff /\ DirOff /\ HourlyOff

\* the next token is read and handled
LinkNext ==
    /\ indexPage.pc = "loop"
    /\ indexPage' = LinkScanStep(indexPage)
    /\ UNCHANGED <<stationsFile, windFile>>
    /\ UNCHANGED aggVars
    /\ UNCHANGED reqVars

NextLink == LinkNext

SpecLink == InitLink /\ [][NextLink]_vars

(***************************************************************************)
(* Spec: requests served concurrently against the shared store             *)
(***************************************************************************)
Init ==
    /\ AggOff
    /\ DirOff /\ HourlyOff /\ LinkOff
    /\ stations = <<>>
    /\ windStats = <<>>
    /\ curYear \in ClockYears
    \* "00044" lies as far from Aachen as "00091" and is replaced by it in the
    \* ranking: its archive is never asked for and is left at one value
    /\ archive \in [StationIDs -> ArchiveKinds]
    /\ archive["00044"] = "data"
    /\ started = 0
    /\ rq = [r \in Slots |-> IdleRequest]

\* how a source answers an http.Get of http.DefaultClient, which has no
\* timeout: with a response, with a transport error, or never
HttpOutcomes == {"response", "error", "never"}

Call(op, st) == [op |-> op, st |-> st]

Logged(loc, op, st) == [loc EXCEPT !.calls = Append(@, Call(op, st))]

\* http.Get has not returned: the request waits for the source
Blocked(loc) == [loc EXCEPT !.pc = "waiting"]

\* GetWindStatistics returns (statistics, err) and the handler answers
Return(loc, statistics, err) ==
    [loc EXCEPT !.pc = "done",
                !.ret = [statistics |-> statistics, err |-> err],
                !.resp = ServiceResponse(statistics, err)]

\* for _, ps := range possibleStations: candidate k, or the end of the loop
\* with stationName == ""
NextCandidate(loc, k) ==
    IF k > Len(loc.possibleStations)
    THEN Return(loc, <<>>, <<ErrNoStatisticsInThisPeriod>>)
    ELSE [loc EXCEPT !.pc = "getStationID", !.idx = k]

\* getPossibleNearestStations after the stations were read
Ranked(loc, stationList) ==
    NextCandidate(
        [loc EXCEPT !.possibleStations =
            findPossibleNearestStations(loc.cityCoords, stationList,
                                        loc.windReq.Years)],
        1)

\* the candidate station of the current loop iteration
Candidate(loc) == loc.possibleStations[loc.idx]

\* GetWindStatisticsHandler up to the service call: validation
Receive(r) ==
    /\ rq[r].pc \in {"idle", "done"}
    /\ started < MaxRequests
    /\ started' = started + 1
    /\ \E params \in Queries :
         LET v == validateQueryParams(params)
             fresh == [IdleRequest EXCEPT !.query = params]
         IN  rq' = [rq EXCEPT ![r] =
                 IF v.err # NoError
                 THEN [fresh EXCEPT !.pc = "done",
                                    !.resp = respondErr(StatusBadRequest, v.err)]
                 ELSE [fresh EXCEPT !.pc = "getCityCoordinates",
                                    !.windReq = [City |-> v.City, Years |-> v.Years],
                                    !.calls = <<Call("GetWindStatistics", "")>>]]
    /\ UNCHANGED <<stations, windStats, curYear, archive>>
    /\ UNCHANGED aggVars
    /\ UNCHANGED parseVars

\* getCityCoordinates: the geocoder call and the check of its answer
CallGetCityCoordinates(r) ==
    /\ rq[r].pc = "getCityCoordinates"
    /\ \E answer \in HttpOutcomes :
         LET loc == Logged(rq[r], "geocoder", "")
             data == GeoData(loc.windReq.City)
         IN  rq' = [rq EXCEPT ![r] =
                 IF answer = "never" THEN Blocked(loc)
                 ELSE IF answer = "error"
                 THEN Return(Logged(rq[r], "geocoderError", ""), <<>>,
                             <<"failed to get city coordinates",
                               "failed to get coordinates for the given city",
                               "transport error">>)
                 ELSE IF Len(data) < 1 \/ data[1].Longitude = 0 \/ data[1].Latitude = 0
                 THEN Return(loc, <<>>,
                             Wrap("failed to get city coordinates", <<ErrCityNotFound>>))
                 ELSE [loc EXCEPT !.pc = "getStationsCoordinates",
                                  !.cityCoords = data[1]]]
    /\ UNCHANGED <<stations, windStats, curYear, archive, started>>
    /\ UNCHANGED aggVars
    /\ UNCHANGED parseVars

\* repo.GetStationsCoordinates, first call
CallGetStationsCoordinates(r) ==
    /\ rq[r].pc = "getStationsCoordinates"
    /\ LET loc == Logged(rq[r], "GetStationsCoordinates", "")
           got == GetStationsCoordinates(stations)
       IN  rq' = [rq EXCEPT ![r] =
               IF got.err = <<ErrNoStations>>
               THEN [loc EXCEPT !.pc = "getStationsInfo"]
               ELSE Ranked(loc, got.stations)]
    /\ UNCHANGED <<stations, windStats, curYear, archive, started>>
    /\ UNCHANGED aggVars
    /\ UNCHANGED parseVars

\* loadStationsInfo, first half: getStationsInfo fetches and parses the
\* directory file
CallGetStationsInfo(r) ==
    /\ rq[r].pc = "getStationsInfo"
    /\ \E answer \in HttpOutcomes :
         LET loc == Logged(rq[r], "stationsDirectory", "")
         IN  rq' = [rq EXCEPT ![r] =
                 IF answer = "never" THEN Blocked(loc)
                 ELSE IF answer = "error"
                 THEN Return(Logged(rq[r], "stationsDirectoryError", ""), <<>>,
                             <<"failed to get station info",
                               "failed to get stations info from source",
                               "transport error">>)
                 ELSE [loc EXCEPT !.pc = "insertStationsInfo",
                                  !.batch = StationsSource]]
    /\ UNCHANGED <<stations, windStats, curYear, archive, started>>
    /\ UNCHANGED aggVars
    /\ UNCHANGED parseVars

\* loadStationsInfo, second half: repo.InsertStationsInfo
CallInsertStationsInfo(r) ==
    /\ rq[r].pc = "insertStationsInfo"
    /\ LET loc == Logged(rq[r], "InsertStationsInfo", "")
           ins == InsertStationsInfo(stations, loc.batch)
       IN  /\ stations' = ins.coll
           /\ rq' = [rq EXCEPT ![r] =
                  IF ins.err # NoError
                  THEN Return(loc, <<>>, Wrap("failed to insert stations info", ins.err))
                  ELSE [loc EXCEPT !.pc = "getStationsCoordinatesAgain",
                                   !.batch = <<>>]]
    /\ UNCHANGED <<windStats, curYear, archive, started>>
    /\ UNCHANGED aggVars
    /\ UNCHANGED parseVars

\* repo.GetStationsCoordinates, second call after the directory was loaded
CallGetStationsCoordinatesAgain(r) ==
    /\ rq[r].pc = "getStationsCoordinatesAgain"
    /\ LET loc == Logged(rq[r], "GetStationsCoordinates", "")
           got == GetStationsCoordinates(stations)
       IN  rq' = [rq EXCEPT ![r] =
               IF got.err # NoError
               THEN Return(loc, <<>>, Wrap("failed to get station coordinates", got.err))
               ELSE Ranked(loc, got.stations)]
    /\ UNCHANGED <<stations, windStats, curYear, archive, started>>
    /\ UNCHANGED aggVars
    /\ UNCHANGED parseVars

\* repo.GetStationID for the candidate
CallGetStationID(r) ==
    /\ rq[r].pc = "getStationID"
    /\ LET ps == Candidate(rq[r])
           loc == Logged(rq[r], "GetStationID", ps.Name)
           got == GetStationID(stations, ps.Name)
       IN  rq' = [rq EXCEPT ![r] =
               IF got.err # NoError
               THEN Return(loc, <<>>, Wrap("failed to get station id", got.err))
               ELSE [loc EXCEPT !.pc = "checkIfStatisticsExists",
                                !.stationID = got.id]]
    /\ UNCHANGED <<stations, windStats, curYear, archive, started>>
    /\ UNCHANGED aggVars
    /\ UNCHANGED parseVars

\* Variant without the short cut: the statistics are built in any case.
CheckedAlwaysBuild(loc, statsExists) ==
    LET ps == Candidate(loc)
    IN  [Logged(loc, IF statsExists THEN "statsExist" ELSE "statsMissing", ps.Name)
            EXCEPT !.pc = "getStationHistoricalData"]

\* if statsExists { stationName = ps.Name; break }, else the build
Checked(loc, statsExists) ==
    LET ps == Candidate(loc)
    IN  IF statsExists
        THEN [Logged(loc, "statsExist", ps.Name)
                 EXCEPT !.pc = "getStationWindStatistics",
                        !.stationName = ps.Name]
        ELSE [Logged(loc, "statsMissing", ps.Name)
                 EXCEPT !.pc = "getStationHistoricalData"]

\* repo.CheckIfStatisticsExists for the candidate
CallCheckIfStatisticsExists(r) ==
    /\ rq[r].pc = "checkIfStatisticsExists"
    /\ rq' = [rq EXCEPT ![r] =
            Checked(rq[r],
                    CheckIfStatisticsExists(windStats, Candidate(rq[r]).Name))]
    /\ UNCHANGED <<stations, windStats, curYear, archive, started>>
    /\ UNCHANGED aggVars
    /\ UNCHANGED parseVars

\* loadStationWindStatistics: getStationHistoricalData fetches the index page
CallGetStationHistoricalData(r) ==
    /\ rq[r].pc = "getStationHistoricalData"
    /\ \E answer \in HttpOutcomes :
         LET loc == Logged(rq[r], "archiveIndex", Candidate(rq[r]).Name)
         IN  rq' = [rq EXCEPT ![r] =
                 IF answer = "never" THEN Blocked(loc)
                 ELSE IF answer = "error"
                 THEN Return(Logged(rq[r], "archiveIndexError", Candidate(rq[r]).Name),
                             <<>>,
                             <<"failed to get station historical data",
                               "failed to get wind data from source",
                               "transport error">>)
                 ELSE [loc EXCEPT !.pc = "getAnnualStatistics"]]
    /\ UNCHANGED <<stations, windStats, curYear, archive, started>>
    /\ UNCHANGED aggVars
    /\ UNCHANGED parseVars

\* what getAnnualStatistics fails with when the archive source has no
\* measurement file for the station: the index page has no link for the id,
\* or the archive holds no product file
StatsFileError(kind) ==
    IF kind = "nolink"
    THEN <<"failed to process info",
           "failed to get name of the file with necessary station statistics",
           errStatsFileNotFound>>
    ELSE <<"failed to process info", "failed to get file", errStatsFileNotFound>>

\* Variant returning every build error to the handler.
BuildFailedAborts(loc, err) == Return(loc, <<>>, err)

\* err = ws.loadStationWindStatistics(...) with err != nil: continue with the
\* next candidate on errStatsFileNotFound, return any other error
BuildFailed(loc, err) ==
    IF errorsIs(err, errStatsFileNotFound)
    THEN NextCandidate(loc, loc.idx + 1)
    ELSE Return(loc, <<>>, err)

\* loadStationWindStatistics: getAnnualStatistics locates the station's file
\* on the index page, downloads the archive, parses the product file and
\* aggregates it; GetWindStatistics goes on to the next candidate when the
\* error is errStatsFileNotFound and returns any other error
CallGetAnnualStatistics(r) ==
    /\ rq[r].pc = "getAnnualStatistics"
    /\ \E answer \in HttpOutcomes :
         LET ps == Candidate(rq[r])
             kind == archive[rq[r].stationID]
             located == Logged(rq[r], "locate", ps.Name)
             loaded == Logged(located, "archiveDownload", ps.Name)
             err == IF kind = "nolink" THEN StatsFileError(kind)
                    ELSE IF answer = "error"
                    THEN <<"failed to process info", "failed to get file",
                           "failed to get wind data by station from source",
                           "transport error">>
                    ELSE IF kind = "noproduct" THEN StatsFileError(kind)
                    ELSE NoError
             loc == IF kind = "nolink" THEN located
                    ELSE IF answer = "error"
                    THEN Logged(located, "archiveDownloadError", ps.Name)
                    ELSE loaded
         IN  rq' = [rq EXCEPT ![r] =
                 IF kind # "nolink" /\ answer = "never" THEN Blocked(loaded)
                 ELSE IF err # NoError
                 THEN BuildFailed(loc, err)
                 ELSE [Logged(loc, "aggregate", ps.Name)
                          EXCEPT !.pc = "insertAnnualStatistics",
                                 !.batch = countAnnualStatistics(
                                               ps.Name, HourlyOf(rq[r].stationID))]]
    /\ UNCHANGED <<stations, windStats, curYear, archive, started>>
    /\ UNCHANGED aggVars
    /\ UNCHANGED parseVars

\* loadStationWindStatistics: repo.InsertAnnualStatistics
CallInsertAnnualStatistics(r) ==
    /\ rq[r].pc = "insertAnnualStatistics"
    /\ LET ps == Candidate(rq[r])
           loc == Logged(rq[r], "InsertAnnualStatistics", ps.Name)
           ins == InsertAnnualStatistics(windStats, loc.batch)
       IN  /\ windStats' = ins.coll
           /\ rq' = [rq EXCEPT ![r] =
                  IF ins.err # NoError
                  THEN Return(Logged(loc, "insertFailed", ps.Name), <<>>,
                              Wrap("failed to insert year measurements", ins.err))
                  ELSE [loc EXCEPT !.pc = "getStationWindStatistics",
                                   !.stationName = ps.Name]]
    /\ UNCHANGED <<stations, curYear, archive, started>>
    /\ UNCHANGED aggVars
    /\ UNCHANGED parseVars

\* the end of GetWindStatistics: ErrNoWindDataForStation is let through
ReadResult(loc, got) ==
    IF got.err # NoError /\ got.err # <<ErrNoWindDataForStation>>
    THEN Return(loc, <<>>, Wrap("failed to get station wind data", got.err))
    ELSE Return(loc, got.stats, NoError)

\* repo.GetStationWindStatistics for the selected station, and the response
CallGetStationWindStatistics(r) ==
    /\ rq[r].pc = "getStationWindStatistics"
    /\ LET loc == Logged(rq[r], "GetStationWindStatistics", rq[r].stationName)
           got == GetStationWindStatistics(windStats, loc.stationName,
                                           loc.windReq.Years, curYear)
       IN  rq' = [rq EXCEPT ![r] = ReadResult(loc, got)]
    /\ UNCHANGED <<stations, windStats, curYear, archive, started>>
    /\ UNCHANGED aggVars
    /\ UNCHANGED parseVars

Next ==
    \E r \in Slots :
        \/ Receive(r)
        \/ CallGetCityCoordinates(r)
        \/ CallGetStationsCoordinates(r)
        \/ CallGetStationsInfo(r)
        \/ CallInsertStationsInfo(r)
        \/ CallGetStationsCoordinatesAgain(r)
        \/ CallGetStationID(r)
        \/ CallCheckIfStatisticsExists(r)
        \/ CallGetStationHistoricalData(r)
        \/ CallGetAnnualStatistics(r)
        \/ CallInsertAnnualStatistics(r)
        \/ CallGetStationWindStatistics(r)

Spec == Init /\ [][Next]_vars

\* the steps of the goroutine serving connection r once its request is read
Serve(r) ==
    \/ CallGetCityCoordinates(r)
    \/ CallGetStationsCoordinates(r)
    \/ CallGetStationsInfo(r)
    \/ CallInsertStationsInfo(r)
    \/ CallGetStationsCoordinatesAgain(r)
    \/ CallGetStationID(r)
    \/ CallCheckIfStatisticsExists(r)
    \/ CallGetStationHistoricalData(r)
    \/ CallGetAnnualStatistics(r)
    \/ CallInsertAnnualStatistics(r)
    \/ CallGetStationWindStatistics(r)

\* Spec with every serving goroutine scheduled: a request that can take a
\* step eventually takes one
SpecLive == Spec /\ \A r \in Slots : WF_vars(Serve(r))

(***************************************************************************)
(* Claims about the aggregator (checked under SpecAgg)                     *)
(***************************************************************************)
\* indices of the non-sentinel samples of calendar year y
NonSentinel(hs, y) ==
    {k \in DOMAIN hs : Year(hs[k].EndDate) = y /\ hs[k].Speed >= 0}

\* indices of all samples of calendar year y
SamplesOf(hs, y) == {k \in DOMAIN hs : Year(hs[k].EndDate) = y}

RECURSIVE SumSpeeds(_, _)
SumSpeeds(hs, K) ==
    IF K = {} THEN 0
    ELSE LET k == CHOOSE x \in K : TRUE
         IN  hs[k].Speed + SumSpeeds(hs, K \ {k})

RecordsOf(out, y) == {k \in DOMAIN out : out[k].Year = y}

\* C1: when countAnnualStatistics returns, there is exactly one record for
\* each calendar year with at least one non-negative sample, none for any
\* other year, and each record's Speed is the arithmetic mean of exactly
\* that year's non-negative speeds.
C1_OneRecordPerYearWithExactMean ==
    aggPc = "done" =>
        LET out == aggSt.annualStatistics
        IN  /\ \A y \in SampleYears :
                  Cardinality(RecordsOf(out, y)) =
                      IF NonSentinel(hourlyStatistics, y) # {} THEN 1 ELSE 0
            /\ \A k \in DOMAIN out :
                  LET K == NonSentinel(hourlyStatistics, out[k].Year)
                  IN  /\ K # {}
                      /\ RatEq(out[k].Speed,
                               Avg(SumSpeeds(hourlyStatistics, K), Cardinality(K)))

\* the three samples of the example: 2010-12-31 23h 4.0, 2011-01-01 00h 6.0,
\* 2011-06-01 12h 2.0
C2_Input ==
    << [EndDate |-> 2010123123, Speed |-> 4],
       [EndDate |-> 2011010100, Speed |-> 6],
       [EndDate |-> 2011060112, Speed |-> 2] >>

C3_NoRecordForSentinelOnlyYear ==
    aggPc = "done" =>
        \A k \in DOMAIN aggSt.annualStatistics :
            LET y == aggSt.annualStatistics[k].Year
            IN  ~ (/\ SamplesOf(hourlyStatistics, y) # {}
                   /\ NonSentinel(hourlyStatistics, y) = {})

(***************************************************************************)
(* Claims about the request path (checked under Spec)                      *)
(***************************************************************************)
\* the request made call op on station st
Has(loc, op, st) == Call(op, st) \in Range(loc.calls)

\* the names of the stations the loop of GetWindStatistics looked at, in order
Tried(loc) ==
    LET isTry(c) == c.op = "GetStationID"
        tries == SelectSeq(loc.calls, isTry)
    IN  [k \in DOMAIN tries |-> tries[k].st]

StationByName(name) ==
    StationsSource[CHOOSE k \in DOMAIN StationsSource : StationsSource[k].Name = name]

\* distance from the request's city to the named station
DistanceOf(loc, name) == Distance(loc.cityCoords, StationByName(name))

\* the calls that build a station's statistics
BuildOps ==
    {"archiveIndex", "archiveIndexError", "locate", "archiveDownload",
     "archiveDownloadError", "aggregate", "InsertAnnualStatistics"}

\* some record of the station is stored
StoredFor(coll, stationName) ==
    \E k \in DOMAIN coll : coll[k].StationName = stationName

LastCall(loc) == loc.calls[Len(loc.calls)]

C5_CacheHitShortCircuit ==
    [][\A r \in Slots :
          /\ (/\ rq[r].pc = "checkIfStatisticsExists"
              /\ rq'[r] # rq[r]
              /\ StoredFor(windStats, Candidate(rq[r]).Name))
                 => /\ rq'[r].pc = "getStationWindStatistics"
                    /\ rq'[r].stationName = Candidate(rq[r]).Name
                    /\ windStats' = windStats
                    /\ \A p \in DOMAIN rq'[r].calls :
                          rq'[r].calls[p].op \in BuildOps
                              => rq'[r].calls[p].st # Candidate(rq[r]).Name
          /\ (/\ rq[r].pc = "getStationWindStatistics"
              /\ rq'[r] # rq[r])
                 => /\ rq'[r].pc = "done"
                    /\ windStats' = windStats
                    /\ rq'[r].calls =
                           Append(rq[r].calls,
                                  Call("GetStationWindStatistics", rq[r].stationName))
      ]_vars

\* a request answered from statistics another request had stored
C5_Witness ==
    \E r \in Slots :
        LET loc == rq[r]
        IN  /\ loc.pc = "done"
            /\ loc.resp.Code = StatusOK
            /\ loc.stationName # ""
            /\ Has(loc, "statsExist", loc.stationName)
            /\ StoredFor(windStats, loc.stationName)
            /\ \A p \in DOMAIN loc.calls : loc.calls[p].op \notin BuildOps

\* the geocoder answered the request with an empty list of locations
CityUnresolved(loc) ==
    /\ loc.pc = "done"
    /\ Has(loc, "geocoder", "")
    /\ GeoData(loc.windReq.City) = <<>>

\* the city was resolved and the last candidate station turned out to have
\* no source file, so that no station was selected
NoStationYieldsStatistics(loc) ==
    /\ loc.pc = "done"
    /\ Has(loc, "geocoder", "")
    /\ GeoData(loc.windReq.City) # <<>>
    /\ loc.stationName = ""
    /\ LastCall(loc).op \in {"locate", "archiveDownload"}
    /\ LastCall(loc).st = loc.possibleStations[Len(loc.possibleStations)].Name

BadYears == {<<>>, <<"x">>, <<"0">>, <<"-", "1">>}

BadQuery(query) == query.city = "" \/ query.years \in BadYears

\* C7: a request with an empty city or with a missing, non-numeric or
\* non-positive years parameter is answered 400 at once and the weather
\* service is never invoked: the request makes no call at all.
C7_InvalidQueryRejectedBeforeService ==
    \A r \in Slots :
        (rq[r].pc # "idle" /\ BadQuery(rq[r].query)) =>
            /\ rq[r].pc = "done"
            /\ rq[r].resp.Code = StatusBadRequest
            /\ rq[r].resp.Body.Code = StatusBadRequest
            /\ rq[r].calls = <<>>

\* a request with years=0 and one with years=-1 have been rejected
C7_Witness ==
    \E a, b \in Slots :
        /\ rq[a].pc = "done" /\ rq[b].pc = "done"
        /\ rq[a].query = [city |-> "Aachen", years |-> <<"0">>]
        /\ rq[b].query = [city |-> "Aachen", years |-> <<"-", "1">>]
        /\ rq[a].resp.Code = StatusBadRequest
        /\ rq[b].resp.Code = StatusBadRequest

\* the years for which the station has stored statistics
StoredYears(coll, stationName) ==
    {coll[k].Year : k \in {j \in DOMAIN coll : coll[j].StationName = stationName}}

\* the n most recent of a set of years (all of them when there are fewer)
MostRecent(Y, n) == {y \in Y : Cardinality({z \in Y : z > y}) < n}

\* the request read the stored records of its selected station
ReadDone(loc) ==
    /\ loc.pc = "done"
    /\ loc.stationName # ""
    /\ Len(loc.calls) > 0
    /\ LastCall(loc) = Call("GetStationWindStatistics", loc.stationName)

\* C8: the records returned for span N are those of the N most recent
\* years the selected station has stored statistics for, whatever the
\* wall-clock year is, and never more than N records.
C8_LastNStoredYears ==
    \A r \in Slots :
        (ReadDone(rq[r]) /\ rq[r].resp.Code = StatusOK) =>
            LET recs == rq[r].resp.Body
                n == rq[r].windReq.Years
            IN  /\ Len(recs) <= n
                /\ {recs[k].Year : k \in DOMAIN recs} =
                       MostRecent(StoredYears(windStats, rq[r].stationName), n)

\* C9: when the selected station has no stored statistic inside the
\* requested span the request ends as 404 'no statistics for this period';
\* a 200 response never carries an empty (null) record list.
C9_EmptySpanIsNotFound ==
    \A r \in Slots :
        /\ (ReadDone(rq[r]) /\ rq[r].resp.Code = StatusOK)
               => Len(rq[r].resp.Body) > 0
        /\ (/\ ReadDone(rq[r])
            /\ \A y \in StoredYears(windStats, rq[r].stationName) :
                   y < curYear - rq[r].windReq.Years)
               => /\ rq[r].resp.Code = StatusNotFound
                  /\ rq[r].resp.Body.Message = <<ErrNoStatisticsInThisPeriod>>

\* the number of stored records of a station and year
Copies(coll, stationName, year) ==
    Cardinality({k \in DOMAIN coll :
                     coll[k].StationName = stationName /\ coll[k].Year = year})

\* C10: when two concurrent requests both found the same station uncached
\* and both went on to insert its statistics, exactly one of the two inserts
\* fails as a duplicate and the store holds a single copy of the station's
\* records.
C10_OneOfTwoInsertsFailsAsDuplicate ==
    \A a, b \in Slots : \A s \in StationNames :
        (/\ a # b
         /\ Has(rq[a], "statsMissing", s) /\ Has(rq[b], "statsMissing", s)
         /\ Has(rq[a], "InsertAnnualStatistics", s)
         /\ Has(rq[b], "InsertAnnualStatistics", s))
            => /\ Has(rq[a], "insertFailed", s) # Has(rq[b], "insertFailed", s)
               /\ \A y \in StoredYears(windStats, s) : Copies(windStats, s, y) = 1

\* the completed build-and-store sequences for a station: the inserts of its
\* statistics, over all requests in progress or answered
BuildsOf(stationName) ==
    UNION {{<<r, p>> : p \in {q \in DOMAIN rq[r].calls :
                                  rq[r].calls[q] =
                                      Call("InsertAnnualStatistics", stationName)}} :
           r \in Slots}

\* C11: over every interleaving of concurrent requests the build-and-store
\* sequence (locate, fetch, parse, aggregate, insert) runs at most once for
\* each station.
C11_AtMostOneBuildPerStation ==
    \A s \in StationNames : Cardinality(BuildsOf(s)) <= 1

\* C12: every request that reached the weather service is eventually
\* answered, whatever the external sources do: a source that never answers
\* fails the request after a timeout instead of blocking it.
C12_EveryRequestCompletes ==
    \A r \in Slots : (rq[r].pc \notin {"idle", "done"}) ~> (rq[r].pc = "done")

\* the geocoder answered the request's call
GeocoderAnswered(loc) ==
    /\ Has(loc, "geocoder", "")
    /\ ~(loc.pc = "waiting" /\ LastCall(loc) = Call("geocoder", ""))

\* the request was answered 404 'city not found'
AnsweredCityNotFound(loc) ==
    /\ loc.pc = "done"
    /\ loc.resp.Code = StatusNotFound
    /\ loc.resp.Body.Message = <<ErrCityNotFound>>

\* C13: getCityCoordinates reports 'city not found' exactly when the
\* geocoder returned no result or a first result with latitude and longitude
\* both zero; a first result with only one zero coordinate is taken as the
\* city's location.
C13_CityNotFoundIffNoResultOrBothZero ==
    \A r \in Slots :
        GeocoderAnswered(rq[r]) =>
            LET data == GeoData(rq[r].windReq.City)
                unknown == IF Len(data) < 1 THEN TRUE
                           ELSE data[1].Latitude = 0 /\ data[1].Longitude = 0
            IN  /\ AnsweredCityNotFound(rq[r]) <=> unknown
                /\ ~unknown => rq[r].cityCoords = data[1]

(***************************************************************************)
(* Claims about the station directory (checked under SpecDir)              *)
(***************************************************************************)
RECURSIVE SumLen(_)
\* the total length of a sequence of strings
SumLen(strs) == IF strs = <<>> THEN 0 ELSE Len(Head(strs)) + SumLen(Tail(strs))

\* the directory line station number j of the result was parsed from: no
\* line before it was skipped
LineOf(j) == stationsFile.fileLines[j + 2]

\* C14: for a directory line of at least eight whitespace-separated fields
\* the station returned has field 0 as its ID and fields 6 to second-to-last,
\* joined by single spaces, as its Name; the last field is dropped.  The
\* line '00003 ... 6.0941 Aachen Nordrhein-Westfalen' gives '00003', 'Aachen'.
C14_StationIsField0AndNameFields ==
    \A j \in DOMAIN stationsFile.stationsInfo :
        LET F == Fields(LineOf(j))
            st == stationsFile.stationsInfo[j]
        IN  /\ Len(F) >= 8 =>
                /\ st.ID = F[1]
                /\ Fields(st.Name) = SubSeq(F, 7, Len(F) - 1)
                /\ Len(st.Name) =
                       SumLen(SubSeq(F, 7, Len(F) - 1)) + (Len(F) - 7) - 1
            /\ LineOf(j) = LineAachen =>
                /\ st.ID = <<"0", "0", "0", "0", "3">>
                /\ st.Name = <<"A", "a", "c", "h", "e", "n">>

\* a file whose third and fourth lines are the eight-field and the
\* nine-field line has been loaded to the end
C14_Witness ==
    /\ stationsFile.pc = "done"
    /\ Len(stationsFile.stationsInfo) = 2
    /\ LineOf(1) = LineAachen
    /\ LineOf(2) = LineZwischenahn
    /\ stationsFile.stationsInfo[2].Name =
           <<"B", "a", "d", " ", "Z", "w", "i", "s", "c", "h", "e", "n", "a",
             "h", "n">>

\* a directory line that has the id, the six data columns and at least one
\* more field
WellFormed(line) == Len(Fields(line)) >= 7

\* C15: whatever the directory file holds (an empty line, a line of fewer
\* than seven fields, fewer than two lines in all) getStationsInfo never
\* crashes, and it returns one station for every well-formed line after the
\* two header lines: a malformed line is skipped.
C15_MalformedLineNeverAborts ==
    /\ stationsFile.pc # "panic"
    /\ stationsFile.pc = "done" =>
           Len(stationsFile.stationsInfo) =
               Cardinality({k \in 3..Len(stationsFile.fileLines) :
                                WellFormed(stationsFile.fileLines[k])})

(***************************************************************************)
(* Claims about the measurement file (checked under SpecHourly)            *)
(***************************************************************************)
\* the ';'-separated fields of a measurement line, blanks removed
FieldsOf(line) == Split(RemoveBlanks(line), ";")

\* the line's second field is a timestamp and its fourth field a number
Convertible(line) ==
    /\ Len(FieldsOf(line)) >= 4
    /\ TimeParse(FieldsOf(line)[2]).ok
    /\ ParseFloat(FieldsOf(line)[4]).ok

\* the lines after the header line
DataLines(f) == SubSeq(f, 2, Len(f))

\* C16: whatever the measurement file holds (no line at all, lines of fewer
\* than four fields) getHourlyStatistics never crashes, drops the header
\* line, and returns the samples of exactly the lines whose second field is
\* a yyyymmddhh timestamp and whose fourth field is a number, in input
\* order; any other line is skipped.
C16_UnconvertibleLineNeverAborts ==
    /\ windFile.pc # "panic"
    /\ windFile.pc = "done" =>
           LET kept == SelectSeq(DataLines(windFile.fileLines), Convertible)
           IN  /\ Len(windFile.hourlyStatistics) = Len(kept)
               /\ \A k \in DOMAIN kept :
                     /\ windFile.hourlyStatistics[k].EndDate =
                            TimeParse(FieldsOf(kept[k])[2]).value
                     /\ windFile.hourlyStatistics[k].Speed =
                            ParseFloat(FieldsOf(kept[k])[4]).value

(***************************************************************************)
(* Claims about the handler's answers (checked under Spec)                 *)
(***************************************************************************)
\* GetWindStatistics returned to the handler
ServiceReturned(loc) == loc.pc = "done" /\ loc.calls # <<>>

\* the service failed with an error that is neither of the two not-found
\* errors
UpstreamFailure(loc) ==
    /\ ServiceReturned(loc)
    /\ loc.ret.err # NoError
    /\ ~errorsIs(loc.ret.err, ErrCityNotFound)
    /\ ~errorsIs(loc.ret.err, ErrNoStatisticsInThisPeriod)

\* C17: a service error that is neither city-not-found nor no-statistics is
\* answered with status 500 and an error object whose Message is the text of
\* the service error; a success is answered with status 200 and the records
\* the service returned.
C17_InternalErrorCarriesServiceErrorText ==
    \A r \in Slots :
        /\ UpstreamFailure(rq[r]) =>
              /\ rq[r].resp.Code = StatusInternalServerError
              /\ rq[r].resp.Body =
                     [Code |-> StatusInternalServerError, Message |-> rq[r].ret.err]
        /\ (ServiceReturned(rq[r]) /\ rq[r].ret.err = NoError) =>
              /\ rq[r].resp.Code = StatusOK
              /\ rq[r].resp.Body = rq[r].ret.statistics

\* one request failed on the archive download and was answered 500, another
\* one was answered 200 with records
C17_Witness ==
    \E a, b \in Slots :
        /\ UpstreamFailure(rq[a])
        /\ LastCall(rq[a]).op = "archiveDownloadError"
        /\ rq[a].resp.Code = StatusInternalServerError
        /\ ServiceReturned(rq[b])
        /\ rq[b].resp.Code = StatusOK
        /\ Len(rq[b].resp.Body) > 0

\* the underlying cause of a service error: the innermost error of the chain
Cause(err) == err[Len(err)]

\* C18: an upstream failure (transport, decoding or storage error) is
\* answered as an internal error whose message does not contain the
\* underlying cause: the cause goes to the log only.
C18_CauseNotExposedToCaller ==
    \A r \in Slots :
        UpstreamFailure(rq[r]) =>
            /\ rq[r].resp.Code = StatusInternalServerError
            /\ Cause(rq[r].ret.err) \notin Range(rq[r].resp.Body.Message)

(***************************************************************************)
(* Claims about the ranking of the stations (checked under Spec)           *)
(***************************************************************************)
\* the station's coverage reaches into the last years of the request
Qualifies(st, years) == st.EndDate > LastMeasuredYear - years

\* position of the station in the directory as stored
DirectoryIndex(st) == CHOOSE k \in DOMAIN stations : stations[k] = st

\* C19: the candidates of a request are exactly the stored stations whose
\* last measured year is greater than LastMeasuredYear - years, each once,
\* in ascending distance to the city, stations at the same distance all
\* kept and in directory order.
C19_AllQualifyingStationsRanked ==
    \A r \in Slots :
        rq[r].idx >= 1 =>
            LET ps == rq[r].possibleStations
                years == rq[r].windReq.Years
                dist(st) == Distance(rq[r].cityCoords, st)
            IN  /\ \A k \in DOMAIN stations :
                      Qualifies(stations[k], years) =>
                          Cardinality({j \in DOMAIN ps : ps[j] = stations[k]}) = 1
                /\ \A j \in DOMAIN ps :
                      /\ ps[j] \in Range(stations)
                      /\ Qualifies(ps[j], years)
                /\ \A i, j \in DOMAIN ps :
                      i < j =>
                          \/ dist(ps[i]) < dist(ps[j])
                          \/ /\ dist(ps[i]) = dist(ps[j])
                             /\ DirectoryIndex(ps[i]) < DirectoryIndex(ps[j])

(***************************************************************************)
(* Claims about the index page scan (checked under SpecLink)               *)
(***************************************************************************)
\* token k lies inside an anchor element: an <a> before it was not closed
InsideAnchor(tokens, k) ==
    \E j \in 1..(k - 1) :
        /\ tokens[j] = Token("StartTag", <<"a">>)
        /\ \A m \in (j + 1)..(k - 1) : tokens[m] # Token("EndTag", <<"a">>)

\* the text tokens inside an anchor that name the station's data file
LinkTexts(tokens) ==
    {k \in DOMAIN tokens :
         /\ tokens[k].type = "Text"
         /\ InsideAnchor(tokens, k)
         /\ MatchString(ScanStationID, tokens[k].data)}

\* C20: the scan returns the first text token inside an anchor element that
\* matches the data-file prefix followed by the station id: never a text
\* after the anchor's end tag, and no matching text of an anchor is skipped
\* because an earlier text of the same anchor did not match.
C20_FirstMatchingTextInsideAnchor ==
    LET hits == LinkTexts(indexPage.tokens)
    IN  /\ indexPage.pc = "found" =>
              /\ indexPage.i \in hits
              /\ \A k \in hits : indexPage.i <= k
              /\ indexPage.fileName = indexPage.tokens[indexPage.i].data
        /\ indexPage.pc = "notfound" => hits = {}

(***************************************************************************)
(* SpecNearest: the version of GetWindStatistics that asks a nearby-       *)
(* stations service for the one nearest station (service.go, first         *)
(* version), requests served concurrently against the shared store         *)
(***************************************************************************)
\* the requests of SpecNearest: Aachen with one or two years, or no years
NearestQueries ==
    {q \in Queries : q.city = "Aachen" /\ q.years \in {<<>>, <<"1">>, <<"2">>}}

\* the station names the nearby-stations service answers with
NearbyStations == {"Aachen-Orsbach", "Bonn-Roleber"}

\* GetWindStatisticsHandler up to the service call: validation
NearestReceive(r) ==
    /\ rq[r].pc \in {"idle", "done"}
    /\ started < MaxRequests
    /\ started' = started + 1
    /\ \E params \in NearestQueries :
         LET v == validateQueryParams(params)
             fresh == [IdleRequest EXCEPT !.query = params]
         IN  rq' = [rq EXCEPT ![r] =
                 IF v.err # NoError
                 THEN [fresh EXCEPT !.pc = "done",
                                    !.resp = respondErr(StatusBadRequest, v.err)]
                 ELSE [fresh EXCEPT !.pc = "getCityCoordinates",
                                    !.windReq = [City |-> v.City, Years |-> v.Years],
                                    !.calls = <<Call("GetWindStatistics", "")>>]]
    /\ UNCHANGED <<stations, windStats, curYear, archive>>
    /\ UNCHANGED aggVars
    /\ UNCHANGED parseVars

\* getNearestStation: the geocoder and the nearby-stations service, which
\* answers with a station name
NearestStation(r) ==
    /\ rq[r].pc = "getCityCoordinates"
    /\ \E answer \in {"error", "never"} \cup NearbyStations :
         LET loc == Logged(rq[r], "getNearestStation", "")
         IN  rq' = [rq EXCEPT ![r] =
                 IF answer = "never" THEN Blocked(loc)
                 ELSE IF answer = "error"
                 THEN Return(loc, <<>>,
                             <<"failed to get coordinates",
                               "failed to get nearest station data from source",
                               "transport error">>)
                 ELSE [loc EXCEPT !.pc = "getStationID", !.stationName = answer]]
    /\ UNCHANGED <<stations, windStats, curYear, archive, started>>
    /\ UNCHANGED aggVars
    /\ UNCHANGED parseVars

\* stationID, err := ws.repo.GetStationID(ctx, stationName); on
\* ErrNoSuchStation the directory is loaded and stationID stays as returned
NearestGetStationID(r) ==
    /\ rq[r].pc = "getStationID"
    /\ LET loc == Logged(rq[r], "GetStationID", rq[r].stationName)
           got == GetStationID(stations, rq[r].stationName)
       IN  rq' = [rq EXCEPT ![r] =
               IF got.err = <<ErrNoSuchStation>>
               THEN [loc EXCEPT !.pc = "getStationsInfo", !.stationID = got.id]
               ELSE [loc EXCEPT !.pc = "getStationWindStatistics",
                                !.stationID = got.id]]
    /\ UNCHANGED <<stations, windStats, curYear, archive, started>>
    /\ UNCHANGED aggVars
    /\ UNCHANGED parseVars

\* loadStationsInfo, second half: repo.InsertStationsInfo
NearestInsertStationsInfo(r) ==
    /\ rq[r].pc = "insertStationsInfo"
    /\ LET loc == Logged(rq[r], "InsertStationsInfo", "")
           ins == InsertStationsInfo(stations, loc.batch)
       IN  /\ stations' = ins.coll
           /\ rq' = [rq EXCEPT ![r] =
                  IF ins.err # NoError
                  THEN Return(loc, <<>>, Wrap("failed to insert stations info", ins.err))
                  ELSE [loc EXCEPT !.pc = "getStationWindStatistics",
                                   !.batch = <<>>]]
    /\ UNCHANGED <<windStats, curYear, archive, started>>
    /\ UNCHANGED aggVars
    /\ UNCHANGED parseVars

\* stats, err := ws.repo.GetStationWindStatistics(ctx, stationName, req.Years)
NearestGetStationWindStatistics(r) ==
    /\ rq[r].pc = "getStationWindStatistics"
    /\ LET loc == Logged(rq[r], "GetStationWindStatistics", rq[r].stationName)
           got == GetStationWindStatistics(windStats, loc.stationName,
                                           loc.windReq.Years, curYear)
       IN  rq' = [rq EXCEPT ![r] =
               IF got.err = <<ErrNoWindDataForStation>>
               THEN [loc EXCEPT !.pc = "getStationHistoricalData"]
               ELSE Return(loc, got.stats, NoError)]
    /\ UNCHANGED <<stations, windStats, curYear, archive, started>>
    /\ UNCHANGED aggVars
    /\ UNCHANGED parseVars

\* loadStationWindStatistics: getStationHistoricalData fetches the index page
NearestGetStationHistoricalData(r) ==
    /\ rq[r].pc = "getStationHistoricalData"
    /\ \E answer \in HttpOutcomes :
         LET loc == Logged(rq[r], "archiveIndex", rq[r].stationName)
         IN  rq' = [rq EXCEPT ![r] =
                 IF answer = "never" THEN Blocked(loc)
                 ELSE IF answer = "error"
                 THEN Return(loc, <<>>,
                             <<"failed to get station historical data",
                               "failed to get wind data from source",
                               "transport error">>)
                 ELSE [loc EXCEPT !.pc = "getAnnualStatistics"]]
    /\ UNCHANGED <<stations, windStats, curYear, archive, started>>
    /\ UNCHANGED aggVars
    /\ UNCHANGED parseVars

\* loadStationWindStatistics: getAnnualStatistics(stationID, stationName,
\* data) finds the file name for stationID on the index page, downloads that
\* file and aggregates its samples under stationName.  The log keeps the id
\* the file name was looked up for and the station whose file was found.
NearestGetAnnualStatistics(r) ==
    /\ rq[r].pc = "getAnnualStatistics"
    /\ \E answer \in HttpOutcomes :
         LET name == rq[r].stationName
             located == Logged(Logged(rq[r], "locate", name),
                               "fileNameFor", rq[r].stationID)
             scan == getStationStatisticsFileName(IDText(rq[r].stationID),
                                                  ArchiveIndexPage(archive))
             owner == FileOwner(scan.fileName)
             found == Logged(located, "fileOf", owner)
         IN  rq' = [rq EXCEPT ![r] =
                 IF scan.pc = "notfound"
                 THEN Return(located, <<>>,
                             <<"failed to process info",
                               "failed to get name of the file with necessary station statistics",
                               "info file not found">>)
                 ELSE IF answer = "never" THEN Blocked(found)
                 ELSE IF answer = "error"
                 THEN Return(found, <<>>,
                             <<"failed to process info", "failed to get file",
                               "failed to get wind data by station from source",
                               "transport error">>)
                 ELSE IF archive[owner] = "noproduct"
                 THEN Return(found, <<>>,
                             <<"failed to process info", "failed to get file",
                               "there is no product file">>)
                 ELSE [found EXCEPT !.pc = "insertAnnualStatistics",
                                    !.batch = countAnnualStatistics(name, HourlyOf(owner))]]
    /\ UNCHANGED <<stations, windStats, curYear, archive, started>>
    /\ UNCHANGED aggVars
    /\ UNCHANGED parseVars

\* loadStationWindStatistics: repo.InsertAnnualStatistics
NearestInsertAnnualStatistics(r) ==
    /\ rq[r].pc = "insertAnnualStatistics"
    /\ LET loc == Logged(rq[r], "InsertAnnualStatistics", rq[r].stationName)
           ins == InsertAnnualStatistics(windStats, loc.batch)
       IN  /\ windStats' = ins.coll
           /\ rq' = [rq EXCEPT ![r] =
                  IF ins.err # NoError
                  THEN Return(loc, <<>>,
                              Wrap("failed to insert year measurements", ins.err))
                  ELSE [loc EXCEPT !.pc = "getStationWindStatisticsAgain"]]
    /\ UNCHANGED <<stations, curYear, archive, started>>
    /\ UNCHANGED aggVars
    /\ UNCHANGED parseVars

\* stats, err = ws.repo.GetStationWindStatistics(...) after the build
NearestGetStationWindStatisticsAgain(r) ==
    /\ rq[r].pc = "getStationWindStatisticsAgain"
    /\ LET loc == Logged(rq[r], "GetStationWindStatistics", rq[r].stationName)
           got == GetStationWindStatistics(windStats, loc.stationName,
                                           loc.windReq.Years, curYear)
       IN  rq' = [rq EXCEPT ![r] =
               IF got.err # NoError
               THEN Return(loc, <<>>,
                           Wrap("failed to get station wind statistics", got.err))
               ELSE Return(loc, got.stats, NoError)]
    /\ UNCHANGED <<stations, windStats, curYear, archive, started>>
    /\ UNCHANGED aggVars
    /\ UNCHANGED parseVars

NextNearest ==
    \E r \in Slots :
        \/ NearestReceive(r)
        \/ NearestStation(r)
        \/ NearestGetStationID(r)
        \/ CallGetStationsInfo(r)
        \/ NearestInsertStationsInfo(r)
        \/ NearestGetStationWindStatistics(r)
        \/ NearestGetStationHistoricalData(r)
        \/ NearestGetAnnualStatistics(r)
        \/ NearestInsertAnnualStatistics(r)
        \/ NearestGetStationWindStatisticsAgain(r)

SpecNearest == Init /\ [][NextNearest]_vars

(***************************************************************************)
(* SpecStoreFaults: the request path of Spec with a store whose InsertMany *)
(* can also end with an error in the middle of a batch                     *)
(***************************************************************************)
\* repo.InsertStationsInfo returns the error of InsertMany (err != nil)
InsertStationsInfoInterrupted(r) ==
    /\ rq[r].pc = "insertStationsInfo"
    /\ \E written \in 0..(Len(rq[r].batch) - 1) :
         LET loc == Logged(rq[r], "InsertStationsInfo", "")
             ins == InsertManyInterrupted(stations, loc.batch, written)
         IN  /\ InsertManyStations(stations, SubSeq(loc.batch, 1, written)).err = NoError
             /\ stations' = ins.coll
             /\ rq' = [rq EXCEPT ![r] =
                    Return(loc, <<>>, Wrap("failed to insert stations info", ins.err))]
    /\ UNCHANGED <<windStats, curYear, archive, started>>
    /\ UNCHANGED aggVars
    /\ UNCHANGED parseVars

\* repo.InsertAnnualStatistics returns the error of InsertMany (err != nil)
InsertAnnualStatisticsInterrupted(r) ==
    /\ rq[r].pc = "insertAnnualStatistics"
    /\ \E written \in 0..(Len(rq[r].batch) - 1) :
         LET ps == Candidate(rq[r])
             loc == Logged(rq[r], "InsertAnnualStatistics", ps.Name)
             ins == InsertManyInterrupted(windStats, loc.batch, written)
         IN  /\ windStats' = ins.coll
             /\ rq' = [rq EXCEPT ![r] =
                    Return(Logged(loc, "insertFailed", ps.Name), <<>>,
                           Wrap("failed to insert year measurements", ins.err))]
    /\ UNCHANGED <<stations, curYear, archive, started>>
    /\ UNCHANGED aggVars
    /\ UNCHANGED parseVars

NextStoreFaults ==
    \/ Next
    \/ \E r \in Slots : InsertStationsInfoInterrupted(r)
    \/ \E r \in Slots : InsertAnnualStatisticsInterrupted(r)

SpecStoreFaults == Init /\ [][NextStoreFaults]_vars

(***************************************************************************)
(* Claims about candidates without a measurement file (checked under Spec) *)
(***************************************************************************)
\* call p of the request found that its station has no measurement file:
\* the index page has no link for the station id, or the downloaded archive
\* has no product file
NoStatsFileAt(loc, p) ==
    LET c == loc.calls[p]
        kind == archive[StationByName(c.st).ID]
    IN  \/ c.op = "locate" /\ kind = "nolink"
        \/ /\ c.op = "archiveDownload" /\ kind = "noproduct"
           /\ ~(p = Len(loc.calls) /\ loc.pc = "waiting")

\* position of the named station among the request's candidates
CandidateIndex(loc, name) ==
    CHOOSE k \in DOMAIN loc.possibleStations : loc.possibleStations[k].Name = name

CallCount(loc, ops) == Cardinality({p \in DOMAIN loc.calls : loc.calls[p].op \in ops})

C24_ExistenceCheckIsPerStation ==
    \A r \in Slots : \A name \in StationNames :
        Has(rq[r], "statsExist", name) => StoredFor(windStats, name)

\* C25: in every reachable state the store holds at most one record per
\* (station name, year).
C25_AtMostOneRecordPerStationAndYear ==
    \A name \in StationNames : \A y \in StoredYears(windStats, name) :
        Copies(windStats, name, y) <= 1

(***************************************************************************)
(* Further claims about countAnnualStatistics (checked under SpecAgg)      *)
(***************************************************************************)
\* C23: at the end of the stream countAnnualStatistics emits a final record
\* for the year in progress whenever that year has at least one non-negative
\* sample, also when the last sample is a sentinel or the first sample of a
\* new year.
C23_FinalRecordForYearInProgress ==
    (aggPc = "done" /\ hourlyStatistics # <<>>) =>
        LET y == Year(hourlyStatistics[Len(hourlyStatistics)].EndDate)
        IN  NonSentinel(hourlyStatistics, y) # {} =>
                RecordsOf(aggSt.annualStatistics, y) # {}

\* C26: countAnnualStatistics never divides by a zero count: every average
\* it computed has num >= 1, and an input that is empty or holds only
\* sentinel values yields no record.
C26_NeverDividesByZeroCount ==
    /\ \A k \in DOMAIN aggSt.annualStatistics :
           aggSt.annualStatistics[k].Speed.num >= 1
    /\ (\A k \in DOMAIN hourlyStatistics : hourlyStatistics[k].Speed < 0) =>
           aggSt.annualStatistics = <<>>

\* a year changed right after a year that had only sentinel samples, and a
\* record was computed at that change
C26_Witness ==
    /\ aggPc = "done"
    /\ Len(hourlyStatistics) >= 2
    /\ hourlyStatistics[1].Speed < 0
    /\ hourlyStatistics[2].Speed >= 0
    /\ Year(hourlyStatistics[1].EndDate) < Year(hourlyStatistics[2].EndDate)
    /\ Len(aggSt.annualStatistics) >= 1

\* C30: for an input whose sample years are non-decreasing, the records have
\* strictly increasing Year, every record's Year is the calendar year of
\* some input sample, every record carries the station name passed in, and
\* an empty input gives an empty result.
C30_RecordsIncreasingFromInputYears ==
    LET out == aggSt.annualStatistics
        nonDecreasing ==
            \A j, k \in DOMAIN hourlyStatistics :
                j < k => Year(hourlyStatistics[j].EndDate) <= Year(hourlyStatistics[k].EndDate)
    IN  nonDecreasing =>
            /\ \A j, k \in DOMAIN out : j < k => out[j].Year < out[k].Year
            /\ \A k \in DOMAIN out : SamplesOf(hourlyStatistics, out[k].Year) # {}
            /\ \A k \in DOMAIN out : out[k].StationName = aggName
            /\ hourlyStatistics = <<>> => out = <<>>

\* an input over two years gave two records
C30_Witness ==
    /\ aggPc = "done"
    /\ Len(aggSt.annualStatistics) = 2
    /\ aggSt.annualStatistics[1].Year < aggSt.annualStatistics[2].Year

(***************************************************************************)
(* Claims about failed writes (checked under SpecStoreFaults)              *)
(***************************************************************************)
\* this step ends the request's call of GetWindStatistics with an error
FailsNow(r) ==
    /\ rq[r].pc # "done"
    /\ rq'[r].pc = "done"
    /\ rq'[r].ret.err # NoError

\* C28: a failed statistics build leaves the store unchanged for the
\* station: when the build returns an error, also from a failed or partial
\* InsertAnnualStatistics, no record of the station was added.
C28_FailedBuildLeavesStoreUnchanged ==
    [][\A r \in Slots :
           (FailsNow(r) /\ rq[r].pc \in {"getStationHistoricalData",
                                        "getAnnualStatistics",
                                        "insertAnnualStatistics"})
               => windStats' = windStats]_vars

\* C29: a failed station directory load leaves nothing of its batch in the
\* stored directory: when loadStationsInfo returns an error, no station was
\* added.
C29_FailedDirectoryLoadLeavesNothingStored ==
    [][\A r \in Slots :
           (FailsNow(r) /\ rq[r].pc \in {"getStationsInfo", "insertStationsInfo"})
               => stations' = stations]_vars

(***************************************************************************)
(* Claim about the station id the file is looked up for (checked under     *)
(* SpecNearest)                                                            *)
(***************************************************************************)
\* C27: statistics stored under a station's name are built from the archive
\* of that station: whenever a request looks up the file of a station, the
\* id it passes is that station's id (never empty, never another station's)
\* and the file found is that station's archive, also in the request that
\* loaded the station directory because the station was not yet known.
C27_FileLookedUpForTheStationsOwnID ==
    \A r \in Slots : \A p \in DOMAIN rq[r].calls :
        rq[r].calls[p].op = "locate" =>
            LET calls == rq[r].calls
                id == StationByName(calls[p].st).ID
            IN  /\ calls[p + 1] = Call("fileNameFor", id)
                /\ (p + 2 <= Len(calls) /\ calls[p + 2].op = "fileOf")
                       => calls[p + 2].st = id

====
